---- MODULE Spec2Model ----
(***************************************************************************)
(* Model of the face-recognition front end.                                *)
(*                                                                         *)
(*   Proxy Endpoint  - the two route handlers POST (age, verify): request  *)
(*                     validation, image encoding, the single outbound     *)
(*                     call with its abort timer, and the normalisation    *)
(*                     of the upstream outcome into the proxy response.    *)
(*                                                                         *)
(* JavaScript values are modelled as records:                              *)
(*   a JSON scalar is [t |-> type, s |-> <<text fragments>>],              *)
(*   a JSON object is [t |-> "object", s |-> <<>>, fields |-> record],     *)
(*   raw text (a response body) is a sequence of one-character strings,    *)
(*   a string built by concatenation is the sequence of its fragments.     *)
(***************************************************************************)
EXTENDS Integers, Sequences, FiniteSets, TLC

VARIABLES pc, req, encoded, timer, aborted, calls, outcome, upStatus, upBody, out

pvars == <<pc, req, encoded, timer, aborted, calls, outcome, upStatus, upBody, out>>

\* The Client Form Controller (both page variants): React state, local storage,
\* pending file reads, the outbound call in flight, and history counters.
VARIABLES variant, mounted, storage, apiKey, isApiKeySaved, isEditingApiKey,
          focusTimers, activeTab, image, preview, reads, result, isLoading,
          error, errorDetails, call, netCalls, events, lastEvent

cvars == <<variant, mounted, storage, apiKey, isApiKeySaved, isEditingApiKey,
           focusTimers, activeTab, image, preview, reads, result, isLoading,
           error, errorDetails, call, netCalls, events, lastEvent>>

vars == <<pvars, cvars>>

\* The two route handlers of the repository.
Handlers == {"age", "verify"}

-----------------------------------------------------------------------------
(* Bounds and program constants *)

\* Upstream bodies longer than the excerpt limit go up to ExcerptLen + MaxExtra.
MaxExtra == 1

\* The number of user events (clicks, selections, key strokes) in a session.
MaxUserEvents == 4

\* responseText.substring(0, 500)
ExcerptLen == 500

Min(a, b) == IF a < b THEN a ELSE b

-----------------------------------------------------------------------------
(* JavaScript values *)

Undefined == [t |-> "undefined", s |-> <<>>]
JNull == [t |-> "null", s |-> <<>>]
JStr(x) == [t |-> "string", s |-> <<x>>]
JNum(x) == [t |-> "number", s |-> <<x>>]
\* A string given by its fragments (a template literal, or raw text).
JText(frags) == [t |-> "string", s |-> frags]
JObj(f) == [t |-> "object", s |-> <<>>, fields |-> f]

\* A nullable string, the result of Headers.get.
NullStr == [isNull |-> TRUE, s |-> ""]
Str(x) == [isNull |-> FALSE, s |-> x]

\* !x for a nullable string: null and "" are falsy.
FalsyStr(k) == k.isNull \/ k.s = ""

\* JavaScript truthiness of a JSON value.
Truthy(v) ==
  CASE v.t \in {"undefined", "null"} -> FALSE
    [] v.t = "string" -> v.s \notin {<<>>, <<"">>}
    [] v.t = "number" -> v.s # <<"0">>
    [] v.t = "boolean" -> v.s = <<"true">>
    [] OTHER -> TRUE

\* v.name (property access on a non-null value)
GetField(v, name) ==
  IF v.t = "object" /\ name \in DOMAIN v.fields THEN v.fields[name] ELSE Undefined

\* responseData?.message
GetMessage(v) == GetField(v, "message")

\* Thrown values: an Error instance, or any other value (an event object).
Err(name, msg) ==
  [isError |-> TRUE, name |-> name, message |-> msg, stack |-> <<name, ": ", msg>>]
NonError(str) ==
  [isError |-> FALSE, name |-> "", message |-> "", stack |-> <<str>>]

\* What request.formData() rejects with when the body is no form.
FormDataError == Err("TypeError", "Failed to parse body as FormData")
\* What FileReader.readAsDataURL throws when its argument is not a Blob.
NotBlobError == Err("TypeError", "parameter 1 is not of type 'Blob'")
\* What reader.onerror passes to reject: the event, not an Error.
ReadErrorEvent == NonError("[object ProgressEvent]")
\* What fetch rejects with when the signal is aborted.
AbortError == Err("AbortError", "This operation was aborted")
\* What fetch rejects with on a network failure.
NetworkError == Err("TypeError", "fetch failed")
\* What response.text() rejects with when the connection drops mid-body.
BodyError == Err("TypeError", "terminated")

-----------------------------------------------------------------------------
(* Upstream response bodies and JSON.parse *)

NotJsonText == <<"n", "o", "t", " ", "j", "s", "o", "n">>
LongText(n) == [i \in 1..n |-> "x"]
NullText == <<"n", "u", "l", "l">>
UnauthorizedText ==
  <<"{", "\"", "m", "e", "s", "s", "a", "g", "e", "\"", ":",
    "\"", "U", "n", "a", "u", "t", "h", "\"", "}">>
NumberMessageText ==
  <<"{", "\"", "m", "e", "s", "s", "a", "g", "e", "\"", ":", "5", "}">>
AgeResultText ==
  <<"{", "\"", "a", "g", "e", "\"", ":", "3", "0", "}">>

\* The texts JSON.parse accepts, with the value each decodes to.
JsonTable ==
  { <<NullText, JNull>>,
    <<UnauthorizedText, JObj([message |-> JStr("Unauth")])>>,
    <<NumberMessageText, JObj([message |-> JNum("5")])>>,
    <<AgeResultText, JObj([age |-> JNum("30")])>> }

\* JSON.parse(text): the decoded value, or a SyntaxError (ok = FALSE).
JSONparse(text) ==
  IF \E p \in JsonTable : p[1] = text
    THEN [ok |-> TRUE, v |-> (CHOOSE p \in JsonTable : p[1] = text)[2]]
    ELSE [ok |-> FALSE, v |-> Undefined]

UpstreamBodies ==
  {<<>>, NotJsonText, NullText, UnauthorizedText, NumberMessageText, AgeResultText}
    \cup {LongText(ExcerptLen + k) : k \in 0..MaxExtra}

UpstreamStatuses == {200, 201, 401, 500}

\* response.ok
IsOk(status) == status \in 200..299

StatusText(n) ==
  CASE n = 200 -> "200" [] n = 201 -> "201" [] n = 401 -> "401" [] n = 500 -> "500"
    [] OTHER -> "?"

\* text.substring(0, n)
Substring0(text, n) == SubSeq(text, 1, Min(n, Len(text)))

-----------------------------------------------------------------------------
(* Incoming requests *)

\* The form fields each handler reads, in the order it encodes them.
FieldNames(h) == IF h = "age" THEN <<"image">> ELSE <<"img1", "img2">>

FieldSet(h) == {FieldNames(h)[i] : i \in 1..Len(FieldNames(h))}

\* formData.get(name): null, "", a non-empty string, or a File.
FieldValues == {"absent", "empty", "text", "file"}

\* !field
FalsyField(v) == v \in {"absent", "empty"}

\* request.headers.get("X-API-KEY"): null, "", or a key.
Keys == {NullStr, Str(""), Str("secret")}

NoFields(h) == [f \in FieldSet(h) |-> "absent"]

\* A request: its key header, whether its body decodes as form data, its fields.
Requests(h) ==
  { [key |-> k, parsable |-> TRUE, fields |-> f] :
      k \in Keys, f \in [FieldSet(h) -> FieldValues] }
    \cup { [key |-> k, parsable |-> FALSE, fields |-> NoFields(h)] : k \in Keys }

-----------------------------------------------------------------------------
(* Proxy responses: [status |-> HTTP status, body |-> the JSON value sent] *)

Response(status, body) == [status |-> status, body |-> body]

\* if (!apiKey) return NextResponse.json({ error: "X-API-KEY is required" }, { status: 400 })
MissingKeyResponse == Response(400, JObj([error |-> JStr("X-API-KEY is required")]))

\* if (!image) ... / if (!img1 || !img2) ...
MissingImageResponse(h) ==
  IF h = "age"
    THEN Response(400, JObj([error |-> JStr("Image is required")]))
    ELSE Response(400, JObj([error |-> JStr("Both images are required")]))

\* Mutant of ImageMissing: the verify check written with && instead of ||.
ImageMissingAll(h, fields) == \A f \in FieldSet(h) : FalsyField(fields[f])

\* age: !image ; verify: !img1 || !img2
ImageMissing(h, fields) == \E f \in FieldSet(h) : FalsyField(fields[f])

\* Mutant of Excerpt: the raw body carried whole, without substring.
ExcerptWhole(text) == text

\* The body excerpt carried by a decode failure: responseText.substring(0, 500).
Excerpt(text) == Substring0(text, ExcerptLen)

\* The catch block around JSON.parse.
ParseFailureResponse(text) ==
  Response(500, JObj([error |-> JStr("Failed to parse API response as JSON"),
                      details |-> JText(Excerpt(text))]))

\* responseData?.message || `API returned error status: ${response.status}`
UpstreamErrorMessage(data, status) ==
  IF Truthy(GetMessage(data))
    THEN GetMessage(data)
    ELSE JText(<<"API returned error status: ", StatusText(status)>>)

\* Mutant of RelayedStatus: every upstream failure answered with 500.
RelayedStatusAlways500(status) == 500

\* The HTTP status of the relayed upstream failure: { status: response.status }.
RelayedStatus(status) == status

\* if (!response.ok) return NextResponse.json({ error, details, status }, { status })
UpstreamErrorResponse(data, status) ==
  Response(RelayedStatus(status),
           JObj([error |-> UpstreamErrorMessage(data, status),
                 details |-> data,
                 status |-> JNum(StatusText(status))]))

\* return NextResponse.json(responseData)
SuccessResponse(data) == Response(200, data)

\* The placeholder the age handler substitutes for an empty body.
EmptyPlaceholder == JObj([error |-> JStr("Empty response from API")])

\* age: responseText ? JSON.parse(responseText) : { error: "Empty response from API" }
AgeDecode(text) ==
  IF text # <<>> THEN JSONparse(text) ELSE [ok |-> TRUE, v |-> EmptyPlaceholder]

\* verify: JSON.parse(responseText)
VerifyDecode(text) == JSONparse(text)

Decode(h, text) == IF h = "age" THEN AgeDecode(text) ELSE VerifyDecode(text)

\* The handler's code from the decoded text to its return statement.
HandleBody(h, status, text) ==
  LET d == Decode(h, text) IN
    IF ~d.ok THEN ParseFailureResponse(text)
    ELSE IF ~IsOk(status) THEN UpstreamErrorResponse(d.v, status)
    ELSE SuccessResponse(d.v)

\* The outer catch block: the message chosen from the thrown value.
CatchMessage(err) ==
  IF err.isError
    THEN IF err.name = "AbortError"
           THEN JStr("Request timed out after 30 seconds")
           ELSE JText(<<"Error: ", err.message>>)
    ELSE JStr("Internal server error")

\* The outer catch block: { error, details: error.stack or String(error) }, 500.
CatchResponse(err) ==
  Response(500, JObj([error |-> CatchMessage(err), details |-> JText(err.stack)]))

\* Mutant of ClearTimeout: the call to clearTimeout forgotten.
ClearTimeoutForgotten(t) == t

\* clearTimeout(timeoutId): a pending timer is cancelled, any other is left as is.
ClearTimeout(t) == IF t = "armed" THEN "cleared" ELSE t

-----------------------------------------------------------------------------
(* The route handlers, one action per run of code between two awaits *)

NoRequest(h) == [key |-> NullStr, parsable |-> FALSE, fields |-> NoFields(h)]

ProxyInit ==
  /\ pc = [h \in Handlers |-> "idle"]
  /\ req = [h \in Handlers |-> NoRequest(h)]
  /\ encoded = [h \in Handlers |-> 0]
  /\ timer = [h \in Handlers |-> "none"]
  /\ aborted = [h \in Handlers |-> FALSE]
  /\ calls = [h \in Handlers |-> 0]
  /\ outcome = [h \in Handlers |-> "none"]
  /\ upStatus = [h \in Handlers |-> 0]
  /\ upBody = [h \in Handlers |-> <<>>]
  /\ out = [h \in Handlers |-> <<>>]

\* A return statement of the handler: the response is sent, the handler ends.
Return(h, r) ==
  /\ out' = [out EXCEPT ![h] = Append(@, r)]
  /\ pc' = [pc EXCEPT ![h] = "done"]

\* new AbortController(); setTimeout(() => controller.abort(), 30000); fetch(...)
StartFetch(h) ==
  /\ timer' = [timer EXCEPT ![h] = "armed"]
  /\ calls' = [calls EXCEPT ![h] = @ + 1]
  /\ outcome' = [outcome EXCEPT ![h] = "pending"]
  /\ pc' = [pc EXCEPT ![h] = "fetching"]
  /\ UNCHANGED <<aborted, upStatus, upBody, out>>

\* The handler once `n` images are encoded: fileToBase64 of the next image, whose
\* executor throws at once when the field is no File, or else the outbound call.
EncodeNext(h, n) ==
  /\ encoded' = [encoded EXCEPT ![h] = n]
  /\ IF n = Len(FieldNames(h))
       THEN StartFetch(h)
       ELSE IF req[h].fields[FieldNames(h)[n + 1]] = "file"
         THEN /\ pc' = [pc EXCEPT ![h] = "encoding"]
              /\ UNCHANGED <<timer, aborted, calls, outcome, upStatus, upBody, out>>
         ELSE /\ Return(h, CatchResponse(NotBlobError))
              /\ UNCHANGED <<timer, aborted, calls, outcome, upStatus, upBody>>

\* The request arrives: POST runs up to `await request.formData()`.
Receive(h) ==
  /\ UNCHANGED cvars
  /\ pc[h] = "idle"
  /\ \E r \in Requests(h) : req' = [req EXCEPT ![h] = r]
  /\ pc' = [pc EXCEPT ![h] = "formData"]
  /\ UNCHANGED <<encoded, timer, aborted, calls, outcome, upStatus, upBody, out>>

\* request.formData() rejects: the body is no form; the outer catch answers.
FormDataReject(h) ==
  /\ UNCHANGED cvars
  /\ pc[h] = "formData"
  /\ ~req[h].parsable
  /\ Return(h, CatchResponse(FormDataError))
  /\ UNCHANGED <<req, encoded, timer, aborted, calls, outcome, upStatus, upBody>>

\* request.formData() resolves: the key check, the image check, the first encode.
FormDataResolve(h) ==
  /\ UNCHANGED cvars
  /\ pc[h] = "formData"
  /\ req[h].parsable
  /\ UNCHANGED req
  /\ IF FalsyStr(req[h].key)
       THEN /\ Return(h, MissingKeyResponse)
            /\ UNCHANGED <<encoded, timer, aborted, calls, outcome, upStatus, upBody>>
       ELSE IF ImageMissing(h, req[h].fields)
         THEN /\ Return(h, MissingImageResponse(h))
              /\ UNCHANGED <<encoded, timer, aborted, calls, outcome, upStatus, upBody>>
         ELSE EncodeNext(h, 0)

\* reader.onload: the image is encoded; the handler goes on.
EncodeResolve(h) ==
  /\ UNCHANGED cvars
  /\ pc[h] = "encoding"
  /\ UNCHANGED req
  /\ EncodeNext(h, encoded[h] + 1)

\* reader.onerror: fileToBase64 rejects with the event; the outer catch answers.
EncodeReject(h) ==
  /\ UNCHANGED cvars
  /\ pc[h] = "encoding"
  /\ Return(h, CatchResponse(ReadErrorEvent))
  /\ UNCHANGED <<req, encoded, timer, aborted, calls, outcome, upStatus, upBody>>

\* fetch resolves (the upstream's status line and headers arrived): clearTimeout,
\* then the handler awaits response.text().
FetchResolve(h) ==
  /\ UNCHANGED cvars
  /\ pc[h] = "fetching"
  /\ ~aborted[h]
  /\ \E s \in UpstreamStatuses, b \in UpstreamBodies :
       /\ upStatus' = [upStatus EXCEPT ![h] = s]
       /\ upBody' = [upBody EXCEPT ![h] = b]
  /\ timer' = [timer EXCEPT ![h] = ClearTimeout(@)]
  /\ outcome' = [outcome EXCEPT ![h] = "responded"]
  /\ pc' = [pc EXCEPT ![h] = "reading"]
  /\ UNCHANGED <<req, encoded, aborted, calls, out>>

\* Mutant of FetchReject: the failed call is issued again instead of answered.
FetchRejectRetry(h) ==
  /\ UNCHANGED cvars
  /\ pc[h] = "fetching"
  /\ ~aborted[h]
  /\ calls[h] < 3
  /\ calls' = [calls EXCEPT ![h] = @ + 1]
  /\ UNCHANGED <<pc, req, encoded, timer, aborted, outcome, upStatus, upBody, out>>

\* fetch rejects (network failure): the inner catch clears the timer and rethrows,
\* the outer catch answers.
FetchReject(h) ==
  /\ UNCHANGED cvars
  /\ pc[h] = "fetching"
  /\ ~aborted[h]
  /\ timer' = [timer EXCEPT ![h] = ClearTimeout(@)]
  /\ outcome' = [outcome EXCEPT ![h] = "rejected"]
  /\ Return(h, CatchResponse(NetworkError))
  /\ UNCHANGED <<req, encoded, aborted, calls, upStatus, upBody>>

\* Mutant of TimerFire: one controller shared by the requests (module level), so
\* the timer of one request aborts them all.
TimerFireSharedController(h) ==
  /\ UNCHANGED cvars
  /\ timer[h] = "armed"
  /\ aborted' = [g \in Handlers |-> TRUE]
  /\ timer' = [timer EXCEPT ![h] = ClearTimeout("fired")]
  /\ IF pc[h] \in {"fetching", "reading"}
       THEN /\ outcome' = [outcome EXCEPT ![h] = "aborted"]
            /\ Return(h, CatchResponse(AbortError))
       ELSE UNCHANGED <<outcome, out, pc>>
  /\ UNCHANGED <<req, encoded, calls, upStatus, upBody>>

\* The 30 s timer fires: controller.abort(). A pending fetch or body read rejects
\* with AbortError in the same turn: inner catch (clearTimeout), outer catch.
TimerFire(h) ==
  /\ UNCHANGED cvars
  /\ timer[h] = "armed"
  /\ aborted' = [aborted EXCEPT ![h] = TRUE]
  /\ timer' = [timer EXCEPT ![h] = ClearTimeout("fired")]
  /\ IF pc[h] \in {"fetching", "reading"}
       THEN /\ outcome' = [outcome EXCEPT ![h] = "aborted"]
            /\ Return(h, CatchResponse(AbortError))
       ELSE UNCHANGED <<outcome, out, pc>>
  /\ UNCHANGED <<req, encoded, calls, upStatus, upBody>>

\* response.text() resolves: decode, then one of the three return statements.
BodyResolve(h) ==
  /\ UNCHANGED cvars
  /\ pc[h] = "reading"
  /\ Return(h, HandleBody(h, upStatus[h], upBody[h]))
  /\ UNCHANGED <<req, encoded, timer, aborted, calls, outcome, upStatus, upBody>>

\* response.text() rejects (the connection drops mid-body): inner catch, outer catch.
BodyReject(h) ==
  /\ UNCHANGED cvars
  /\ pc[h] = "reading"
  /\ timer' = [timer EXCEPT ![h] = ClearTimeout(@)]
  /\ outcome' = [outcome EXCEPT ![h] = "bodyFailed"]
  /\ Return(h, CatchResponse(BodyError))
  /\ UNCHANGED <<req, encoded, aborted, calls, upStatus, upBody>>

ProxyNext ==
  \E h \in Handlers :
    \/ Receive(h)
    \/ FormDataReject(h)
    \/ FormDataResolve(h)
    \/ EncodeResolve(h)
    \/ EncodeReject(h)
    \/ FetchResolve(h)
    \/ FetchReject(h)
    \/ TimerFire(h)
    \/ BodyResolve(h)
    \/ BodyReject(h)

-----------------------------------------------------------------------------
(* The Client Form Controller: state *)

\* The page variants: "single" (verification only, posts a form) and "multi"
\* (four tabs, encodes the images itself).
Variants == {"single", "multi"}

Kinds == {"verification", "emotion", "age", "gender"}

KindsOf(v) == IF v = "single" THEN {"verification"} ELSE Kinds

\* The image state variables, in the order a submission encodes them.
SlotSeq(k) ==
  CASE k = "verification" -> <<"image1", "image2">>
    [] k = "emotion" -> <<"emotionImage">>
    [] k = "age" -> <<"ageImage">>
    [] k = "gender" -> <<"genderImage">>

SlotsOf(k) == {SlotSeq(k)[i] : i \in 1..Len(SlotSeq(k))}

Slots == UNION {SlotsOf(k) : k \in Kinds}

KindOfSlot(sl) == CHOOSE k \in Kinds : sl \in SlotsOf(k)

\* const MAX_IMAGE_SIZE = 5 * 1024 * 1024
MAX_IMAGE_SIZE == 5 * 1024 * 1024

\* useState<File | null>(null)
NoFile == [id |-> "none", size |-> 0]

\* The files the user can pick: a small one, one of exactly 5 MB, one a byte over.
Files ==
  { [id |-> "a", size |-> 1024],
    [id |-> "b", size |-> MAX_IMAGE_SIZE],
    [id |-> "big", size |-> MAX_IMAGE_SIZE + 1] }

\* reader.result of readAsDataURL(file)
NoPreview == <<>>
DataURL(id) == <<"data:", id>>

\* What the user can type into the key input.
KeyInputs == {"", " ", "k"}

\* apiKey.trim()
Trim(x) == IF x = " " THEN "" ELSE x

\* What local storage can hold at page load: nothing, "", or a key.
StoredAtLoad == {NullStr, Str(""), Str("k")}

\* No outbound call in flight.
NoCall == [phase |-> "idle", kind |-> "none", files |-> <<>>, n |-> 0,
           status |-> 0, payload |-> Undefined]

\* The component before its mount effect ran: the useState initial values.
ClientStart(v, st) ==
  /\ variant = v
  /\ mounted = FALSE
  /\ storage = st
  /\ apiKey = ""
  /\ isApiKeySaved = FALSE
  /\ isEditingApiKey = FALSE
  /\ focusTimers = 0
  /\ activeTab = "verification"
  /\ image = [sl \in Slots |-> NoFile]
  /\ preview = [sl \in Slots |-> NoPreview]
  /\ reads = {}
  /\ result = [k \in Kinds |-> JNull]
  /\ isLoading = FALSE
  /\ error = JNull
  /\ errorDetails = JNull
  /\ call = NoCall
  /\ netCalls = 0
  /\ events = 0
  /\ lastEvent = "none"

ClientInit == \E v \in Variants, st \in StoredAtLoad : ClientStart(v, st)

\* A user event: counted, and its kind remembered as the last one.
UserEvent(type) ==
  /\ mounted
  /\ events < MaxUserEvents
  /\ events' = events + 1
  /\ lastEvent' = type

-----------------------------------------------------------------------------
(* The Client Form Controller: credential controls *)

\* Mutant of Mount: the stored key is loaded but not marked as saved.
MountNotSaved ==
  /\ ~mounted
  /\ mounted' = TRUE
  /\ IF ~FalsyStr(storage)
       THEN /\ apiKey' = storage.s
            /\ UNCHANGED <<isApiKeySaved, isEditingApiKey>>
       ELSE /\ isEditingApiKey' = TRUE
            /\ UNCHANGED <<apiKey, isApiKeySaved>>
  /\ UNCHANGED <<variant, storage, focusTimers, activeTab, image, preview, reads,
                 result, isLoading, error, errorDetails, call, netCalls, events,
                 lastEvent>>
  /\ UNCHANGED pvars

\* useEffect(() => { ... }, []): load the key from local storage.
Mount ==
  /\ ~mounted
  /\ mounted' = TRUE
  /\ IF ~FalsyStr(storage)
       THEN /\ apiKey' = storage.s
            /\ isApiKeySaved' = TRUE
            /\ UNCHANGED isEditingApiKey
       ELSE /\ isEditingApiKey' = TRUE
            /\ UNCHANGED <<apiKey, isApiKeySaved>>
  /\ UNCHANGED <<variant, storage, focusTimers, activeTab, image, preview, reads,
                 result, isLoading, error, errorDetails, call, netCalls, events,
                 lastEvent>>
  /\ UNCHANGED pvars

\* <Input id="apiKey" ... disabled={isApiKeySaved && !isEditingApiKey} />
KeyInputDisabled == isApiKeySaved /\ ~isEditingApiKey

\* Mutant of TypeKey: every key stroke is written through to local storage.
TypeKeyAutosave(x) ==
  /\ UserEvent("type")
  /\ ~KeyInputDisabled
  /\ apiKey' = x
  /\ storage' = Str(x)
  /\ UNCHANGED <<variant, mounted, isApiKeySaved, isEditingApiKey,
                 focusTimers, activeTab, image, preview, reads, result, isLoading,
                 error, errorDetails, call, netCalls>>
  /\ UNCHANGED pvars

\* onChange={(e) => setApiKey(e.target.value)}; the input is disabled while the
\* key is saved and not being edited.
TypeKey(x) ==
  /\ UserEvent("type")
  /\ ~KeyInputDisabled
  /\ apiKey' = x
  /\ UNCHANGED <<variant, mounted, storage, isApiKeySaved, isEditingApiKey,
                 focusTimers, activeTab, image, preview, reads, result, isLoading,
                 error, errorDetails, call, netCalls>>
  /\ UNCHANGED pvars

\* Mutant of SaveKey: the blank check left out.
SaveKeyUnchecked ==
  /\ UserEvent("save")
  /\ isEditingApiKey
  /\ storage' = Str(apiKey)
  /\ isApiKeySaved' = TRUE
  /\ isEditingApiKey' = FALSE
  /\ UNCHANGED <<variant, mounted, apiKey, focusTimers, activeTab, image, preview,
                 reads, result, isLoading, error, errorDetails, call, netCalls>>
  /\ UNCHANGED pvars

\* saveApiKey; the Save button is rendered while editing.
SaveKey ==
  /\ UserEvent("save")
  /\ isEditingApiKey
  /\ IF Trim(apiKey) # ""
       THEN /\ storage' = Str(apiKey)
            /\ isApiKeySaved' = TRUE
            /\ isEditingApiKey' = FALSE
       ELSE UNCHANGED <<storage, isApiKeySaved, isEditingApiKey>>
  /\ UNCHANGED <<variant, mounted, apiKey, focusTimers, activeTab, image, preview,
                 reads, result, isLoading, error, errorDetails, call, netCalls>>
  /\ UNCHANGED pvars

\* removeApiKey; the Remove button is rendered while a key is saved.
RemoveKey ==
  /\ UserEvent("remove")
  /\ isApiKeySaved
  /\ storage' = NullStr
  /\ apiKey' = ""
  /\ isApiKeySaved' = FALSE
  /\ isEditingApiKey' = TRUE
  /\ focusTimers' = focusTimers + 1
  /\ UNCHANGED <<variant, mounted, activeTab, image, preview, reads, result,
                 isLoading, error, errorDetails, call, netCalls>>
  /\ UNCHANGED pvars

\* Mutant of ToggleEdit: the Edit button rendered whatever the flags are.
ToggleEditAnytime ==
  /\ UserEvent("edit")
  /\ isEditingApiKey' = ~isEditingApiKey
  /\ focusTimers' = IF ~isEditingApiKey THEN focusTimers + 1 ELSE focusTimers
  /\ UNCHANGED <<variant, mounted, storage, apiKey, isApiKeySaved, activeTab, image,
                 preview, reads, result, isLoading, error, errorDetails, call,
                 netCalls>>
  /\ UNCHANGED pvars

\* toggleEditApiKey; the Edit button is rendered while saved and not editing.
ToggleEdit ==
  /\ UserEvent("edit")
  /\ isApiKeySaved /\ ~isEditingApiKey
  /\ isEditingApiKey' = ~isEditingApiKey
  /\ focusTimers' = IF ~isEditingApiKey THEN focusTimers + 1 ELSE focusTimers
  /\ UNCHANGED <<variant, mounted, storage, apiKey, isApiKeySaved, activeTab, image,
                 preview, reads, result, isLoading, error, errorDetails, call,
                 netCalls>>
  /\ UNCHANGED pvars

\* setTimeout(() => apiKeyInputRef.current?.focus(), 100) fires.
FocusFire ==
  /\ focusTimers > 0
  /\ focusTimers' = focusTimers - 1
  /\ UNCHANGED <<variant, mounted, storage, apiKey, isApiKeySaved, isEditingApiKey,
                 activeTab, image, preview, reads, result, isLoading, error,
                 errorDetails, call, netCalls, events, lastEvent>>
  /\ UNCHANGED pvars

-----------------------------------------------------------------------------
(* The Client Form Controller: images *)

\* The form of kind k is on screen.
Rendered(k) == k \in KindsOf(variant) /\ activeTab = k

\* Mutant of FormEnabled: the buttons stay enabled during a call.
FormAlwaysEnabled == TRUE

\* <Button type="submit" disabled={isLoading}>, <Button onClick={onReset}
\* disabled={isLoading}>: the form's buttons act only while not loading.
FormEnabled == ~isLoading

\* Mutant of ImageSizeOk: a file of exactly the limit is refused too.
ImageSizeBelow(f) == f.size < MAX_IMAGE_SIZE

\* validateImageSize: file.size > MAX_IMAGE_SIZE is rejected (multi variant only).
ImageSizeOk(f) == ~(f.size > MAX_IMAGE_SIZE)

OversizeError == JText(<<"Image size exceeds the maximum limit of ", "5", "MB">>)

\* handleImage1Change, handleImage2Change, handleEmotionImageChange, ...
SelectImage(sl, f) ==
  /\ UserEvent("select")
  /\ Rendered(KindOfSlot(sl))
  /\ IF variant = "multi" /\ ~ImageSizeOk(f)
       THEN /\ error' = OversizeError
            /\ UNCHANGED <<image, reads>>
       ELSE /\ image' = [image EXCEPT ![sl] = f]
            /\ reads' = reads \cup {<<sl, f.id>>}
            /\ UNCHANGED error
  /\ UNCHANGED <<variant, mounted, storage, apiKey, isApiKeySaved, isEditingApiKey,
                 focusTimers, activeTab, preview, result, isLoading, errorDetails,
                 call, netCalls>>
  /\ UNCHANGED pvars

\* reader.onload = (e) => setImage1Preview(e.target?.result as string)
ReadComplete(sl, id) ==
  /\ <<sl, id>> \in reads
  /\ reads' = reads \ {<<sl, id>>}
  /\ preview' = [preview EXCEPT ![sl] = DataURL(id)]
  /\ UNCHANGED <<variant, mounted, storage, apiKey, isApiKeySaved, isEditingApiKey,
                 focusTimers, activeTab, image, result, isLoading, error,
                 errorDetails, call, netCalls, events, lastEvent>>
  /\ UNCHANGED pvars

\* The read fails: the preview reader has no onerror handler, nothing happens.
ReadError(sl, id) ==
  /\ <<sl, id>> \in reads
  /\ reads' = reads \ {<<sl, id>>}
  /\ UNCHANGED <<variant, mounted, storage, apiKey, isApiKeySaved, isEditingApiKey,
                 focusTimers, activeTab, image, preview, result, isLoading, error,
                 errorDetails, call, netCalls, events, lastEvent>>
  /\ UNCHANGED pvars

\* <Tabs value={activeTab} onValueChange={setActiveTab}>
SwitchTab(k) ==
  /\ UserEvent("tab")
  /\ variant = "multi"
  /\ k # activeTab
  /\ activeTab' = k
  /\ UNCHANGED <<variant, mounted, storage, apiKey, isApiKeySaved, isEditingApiKey,
                 focusTimers, image, preview, reads, result, isLoading, error,
                 errorDetails, call, netCalls>>
  /\ UNCHANGED pvars

\* resetForm, resetVerificationForm, resetEmotionForm, ...; the Reset button is
\* disabled while loading.
Reset(k) ==
  /\ UserEvent("reset")
  /\ Rendered(k)
  /\ FormEnabled
  /\ image' = [sl \in Slots |-> IF sl \in SlotsOf(k) THEN NoFile ELSE image[sl]]
  /\ preview' = [sl \in Slots |-> IF sl \in SlotsOf(k) THEN NoPreview ELSE preview[sl]]
  /\ result' = [result EXCEPT ![k] = JNull]
  /\ error' = JNull
  /\ errorDetails' = JNull
  /\ UNCHANGED <<variant, mounted, storage, apiKey, isApiKeySaved, isEditingApiKey,
                 focusTimers, activeTab, reads, isLoading, call, netCalls>>
  /\ UNCHANGED pvars

-----------------------------------------------------------------------------
(* The Client Form Controller: submission *)

\* Mutant of KeyMissing: the key check dropped.
KeyCheckDropped(key) == FALSE

\* !apiKey
KeyMissing(key) == key = ""

\* !image1 || !image2, !emotionImage, ...
ImageUnset(k) == \E sl \in SlotsOf(k) : image[sl] = NoFile

\* The local validation of a submission: the error it raises, JNull when none.
ValidationError(k) ==
  IF variant = "single"
    THEN IF ImageUnset(k) \/ KeyMissing(apiKey)
           THEN JStr("All fields are required") ELSE JNull
    ELSE IF KeyMissing(apiKey) THEN JStr("API key is required")
         ELSE IF ImageUnset(k)
           THEN IF k = "verification" THEN JStr("Both images are required")
                                      ELSE JStr("Image is required")
           ELSE JNull

\* The fallback message of a failed call.
DefaultFailure(k) ==
  CASE k = "verification" -> JStr("Failed to verify faces")
    [] k = "emotion" -> JStr("Failed to detect emotion")
    [] k = "age" -> JStr("Failed to detect age")
    [] k = "gender" -> JStr("Failed to detect gender")

\* handleApiError (and the same code inline in handleSubmit): the message shown.
ApiErrorMessage(err) ==
  IF err.isError THEN JStr(err.message) ELSE JStr("{\"isTrusted\":true}")

\* What res.json() can give: a SyntaxError (ok = FALSE) or the decoded value.
ClientPayloads ==
  { [ok |-> FALSE, v |-> Undefined],
    [ok |-> TRUE, v |-> JNull],
    [ok |-> TRUE, v |-> JObj([message |-> JStr("Match")])],
    [ok |-> TRUE, v |-> JObj([error |-> JNum("5")])],
    [ok |-> TRUE, v |-> JObj([error |-> JStr("Unauthorized"),
                              details |-> JObj([code |-> JNum("7")])])] }

ClientStatuses == {200, 401}

\* JSON.stringify(v) for the values a payload or its details can be.
StringifyTable ==
  { <<JNull, "null">>,
    <<JObj([message |-> JStr("Match")]), "{\"message\":\"Match\"}">>,
    <<JObj([error |-> JNum("5")]), "{\"error\":5}">>,
    <<JObj([code |-> JNum("7")]), "{\"code\":7}">>,
    <<JObj([error |-> JStr("Unauthorized"), details |-> JObj([code |-> JNum("7")])]),
      "{\"error\":\"Unauthorized\",\"details\":{\"code\":7}}">> }

JSONstringify(v) == (CHOOSE p \in StringifyTable : p[1] = v)[2]

JsonSyntaxError == Err("SyntaxError", "Unexpected token")
NullAccessError == Err("TypeError", "Cannot read properties of null (reading 'error')")

\* handleSubmit, handleVerificationSubmit, handleEmotionSubmit, handleAgeSubmit,
\* handleGenderSubmit, up to the first await; the Submit button is disabled
\* while loading.
Submit(k) ==
  /\ UserEvent("submit")
  /\ Rendered(k)
  /\ FormEnabled
  /\ IF ValidationError(k) # JNull
       THEN /\ error' = ValidationError(k)
            /\ UNCHANGED <<isLoading, errorDetails, result, call, netCalls>>
       ELSE /\ isLoading' = TRUE
            /\ error' = JNull
            /\ errorDetails' = JNull
            /\ result' = [result EXCEPT ![k] = JNull]
            /\ IF variant = "single"
                 THEN /\ call' = [NoCall EXCEPT !.phase = "fetching", !.kind = k,
                                    !.files = [i \in 1..Len(SlotSeq(k)) |-> image[SlotSeq(k)[i]].id]]
                      /\ netCalls' = netCalls + 1
                 ELSE /\ call' = [NoCall EXCEPT !.phase = "encoding", !.kind = k,
                                    !.files = [i \in 1..Len(SlotSeq(k)) |-> image[SlotSeq(k)[i]].id]]
                      /\ UNCHANGED netCalls
  /\ UNCHANGED <<variant, mounted, storage, apiKey, isApiKeySaved, isEditingApiKey,
                 focusTimers, activeTab, image, preview, reads>>
  /\ UNCHANGED pvars

\* Mutant of Fail: the finally block left out.
FailNoFinally(err) ==
  /\ error' = ApiErrorMessage(err)
  /\ isLoading' = isLoading
  /\ call' = NoCall

\* catch (err) { handleApiError(err) } finally { setIsLoading(false) }
Fail(err) ==
  /\ error' = ApiErrorMessage(err)
  /\ isLoading' = FALSE
  /\ call' = NoCall

\* fileToBase64 resolves: the next image is encoded, or the call is issued.
CallEncodeResolve ==
  /\ call.phase = "encoding"
  /\ IF call.n + 1 = Len(call.files)
       THEN /\ call' = [call EXCEPT !.n = @ + 1, !.phase = "fetching"]
            /\ netCalls' = netCalls + 1
       ELSE /\ call' = [call EXCEPT !.n = @ + 1]
            /\ UNCHANGED netCalls
  /\ UNCHANGED <<variant, mounted, storage, apiKey, isApiKeySaved, isEditingApiKey,
                 focusTimers, activeTab, image, preview, reads, result, isLoading,
                 error, errorDetails, events, lastEvent>>
  /\ UNCHANGED pvars

\* fileToBase64 rejects (reader.onerror).
CallEncodeReject ==
  /\ call.phase = "encoding"
  /\ Fail(ReadErrorEvent)
  /\ UNCHANGED <<variant, mounted, storage, apiKey, isApiKeySaved, isEditingApiKey,
                 focusTimers, activeTab, image, preview, reads, result, errorDetails,
                 netCalls, events, lastEvent>>
  /\ UNCHANGED pvars

\* fetch rejects (network failure).
CallFetchReject ==
  /\ call.phase = "fetching"
  /\ Fail(NetworkError)
  /\ UNCHANGED <<variant, mounted, storage, apiKey, isApiKeySaved, isEditingApiKey,
                 focusTimers, activeTab, image, preview, reads, result, errorDetails,
                 netCalls, events, lastEvent>>
  /\ UNCHANGED pvars

\* fetch resolves; the handler awaits res.json().
CallFetchResolve ==
  /\ call.phase = "fetching"
  /\ \E s \in ClientStatuses, p \in ClientPayloads :
       call' = [call EXCEPT !.phase = "parsing", !.status = s, !.payload = p]
  /\ UNCHANGED <<variant, mounted, storage, apiKey, isApiKeySaved, isEditingApiKey,
                 focusTimers, activeTab, image, preview, reads, result, isLoading,
                 error, errorDetails, netCalls, events, lastEvent>>
  /\ UNCHANGED pvars

\* res.json() settles: the rest of the try block, the catch and the finally.
CallJsonSettle ==
  /\ call.phase = "parsing"
  /\ IF ~call.payload.ok
       THEN Fail(JsonSyntaxError) /\ UNCHANGED <<errorDetails, result>>
       ELSE IF ~IsOk(call.status)
         THEN IF call.payload.v.t = "null"
                THEN Fail(NullAccessError) /\ UNCHANGED <<errorDetails, result>>
                ELSE /\ errorDetails' =
                          IF Truthy(GetField(call.payload.v, "details"))
                            THEN GetField(call.payload.v, "details")
                            ELSE call.payload.v
                     /\ Fail(Err("Error",
                          IF GetField(call.payload.v, "error").t = "string"
                            THEN GetField(call.payload.v, "error").s[1]
                            ELSE DefaultFailure(call.kind).s[1]))
                     /\ UNCHANGED result
         ELSE /\ result' = [result EXCEPT ![call.kind] = call.payload.v]
              /\ isLoading' = FALSE
              /\ call' = NoCall
              /\ UNCHANGED <<error, errorDetails>>
  /\ UNCHANGED <<variant, mounted, storage, apiKey, isApiKeySaved, isEditingApiKey,
                 focusTimers, activeTab, image, preview, reads, netCalls, events,
                 lastEvent>>
  /\ UNCHANGED pvars

\* Every step of the page but a failing preview read.
ClientReadsCompleteNext ==
  \/ Mount
  \/ \E x \in KeyInputs : TypeKey(x)
  \/ SaveKey
  \/ RemoveKey
  \/ ToggleEdit
  \/ FocusFire
  \/ \E sl \in Slots, f \in Files : SelectImage(sl, f)
  \/ \E sl \in Slots, f \in Files : ReadComplete(sl, f.id)
  \/ \E k \in Kinds : SwitchTab(k)
  \/ \E k \in Kinds : Reset(k)
  \/ \E k \in Kinds : Submit(k)
  \/ CallEncodeResolve
  \/ CallEncodeReject
  \/ CallFetchReject
  \/ CallFetchResolve
  \/ CallJsonSettle

ClientNext ==
  \/ ClientReadsCompleteNext
  \/ \E sl \in Slots, f \in Files : ReadError(sl, f.id)

-----------------------------------------------------------------------------
(* Specifications *)

\* The proxy handlers serving one request each, the client left unmounted.
ProxySpecInit == ProxyInit /\ ClientStart("multi", NullStr)

ProxySpec == ProxySpecInit /\ [][ProxyNext]_vars

\* One session of a page variant, the proxy handlers left idle.
ClientSpecInit == ClientInit /\ ProxyInit

ClientSpec == ClientSpecInit /\ [][ClientNext]_vars

\* The handlers under the scheduling the server guarantees once a request is
\* accepted: the request's form is decoded or refused, an image encoding comes
\* to an end, and an armed timer fires when its 30 s are over.  Nothing is
\* assumed of the upstream: whether fetch or response.text() ever settles is up
\* to the remote side.
ProxyFairness ==
  \A h \in Handlers :
    /\ WF_vars(FormDataResolve(h) \/ FormDataReject(h))
    /\ WF_vars(EncodeResolve(h) \/ EncodeReject(h))
    /\ WF_vars(TimerFire(h))

ProxyLiveSpec == ProxySpecInit /\ [][ProxyNext]_vars /\ ProxyFairness

\* A session in which every preview read succeeds.
ClientReadsSpec == ClientSpecInit /\ [][ClientReadsCompleteNext]_vars

\* The same session under the scheduling the browser guarantees: the mount
\* effect runs, a scheduled focus timer fires, and a local file read (preview or
\* encoding) comes to an end.  Nothing is assumed of the remote side: whether
\* fetch or res.json() ever settles is up to the network.
ClientFairness ==
  /\ WF_vars(Mount)
  /\ WF_vars(FocusFire)
  /\ WF_vars(\E sl \in Slots, f \in Files : ReadComplete(sl, f.id) \/ ReadError(sl, f.id))
  /\ WF_vars(CallEncodeResolve \/ CallEncodeReject)

ClientLiveSpec == ClientSpecInit /\ [][ClientNext]_vars /\ ClientFairness

-----------------------------------------------------------------------------
(* Properties of the Proxy Endpoint *)

Done(h) == pc[h] = "done"

\* The response the handler sent (defined once it is done).
Sent(h) == out[h][1]

\* The `error` field of a response body is present and has the given text.
HasError(r, text) ==
  /\ r.body.t = "object"
  /\ "error" \in DOMAIN r.body.fields
  /\ r.body.fields.error = JStr(text)

\* The request carried a usable key and a file in every image field.
ValidRequest(h) ==
  /\ req[h].parsable
  /\ ~FalsyStr(req[h].key)
  /\ \A f \in FieldSet(h) : req[h].fields[f] = "file"

\* The upstream answered and its body was read to the end.
Answered(h) == Done(h) /\ outcome[h] = "responded"

\* C1 - a request whose X-API-KEY header is absent or empty is answered with
\* HTTP 400 "X-API-KEY is required" and causes no outbound call, whatever its body.
C1_MissingKeyRejected ==
  \A h \in Handlers :
    (Done(h) /\ FalsyStr(req[h].key)) =>
      /\ Len(out[h]) = 1
      /\ Sent(h).status = 400
      /\ HasError(Sent(h), "X-API-KEY is required")
      /\ calls[h] = 0

\* C2 - a form request that carries a key but lacks a required image field is
\* answered with HTTP 400 and the missing-image error, without an outbound call;
\* when the key is missing too, the missing-key error is the one reported.
C2_MissingImageRejected ==
  \A h \in Handlers :
    (Done(h) /\ req[h].parsable /\ \E f \in FieldSet(h) : req[h].fields[f] = "absent") =>
      /\ Len(out[h]) = 1
      /\ Sent(h).status = 400
      /\ calls[h] = 0
      /\ IF FalsyStr(req[h].key)
           THEN HasError(Sent(h), "X-API-KEY is required")
           ELSE HasError(Sent(h), IF h = "age" THEN "Image is required"
                                              ELSE "Both images are required")

\* C2 witness: verify answered a request with a key, img1 a file and img2 absent.
C2_Witness ==
  /\ Done("verify")
  /\ req["verify"].parsable
  /\ ~FalsyStr(req["verify"].key)
  /\ req["verify"].fields["img1"] = "file"
  /\ req["verify"].fields["img2"] = "absent"
  /\ Sent("verify").status = 400

\* C3 - when the deadline passes with the call pending, the call is aborted and
\* the request gets exactly one response, the 500 timeout failure; when the call
\* settles first, the timer is cancelled: no abort follows, and no armed timer
\* is left once the request is answered.
C3_TimeoutAndTimerCancelled ==
  \A h \in Handlers :
    /\ outcome[h] = "aborted" =>
         /\ aborted[h]
         /\ Len(out[h]) = 1
         /\ Sent(h).status = 500
         /\ HasError(Sent(h), "Request timed out after 30 seconds")
    /\ outcome[h] \in {"responded", "rejected", "bodyFailed"} =>
         /\ timer[h] = "cleared"
         /\ ~aborted[h]
    /\ Done(h) => timer[h] # "armed"

\* C3 witness: one request timed out, the other's call settled before the deadline.
C3_Witness ==
  /\ Done("age") /\ outcome["age"] = "aborted" /\ timer["age"] = "fired"
  /\ Done("verify") /\ outcome["verify"] = "responded"

\* C4 (as claimed) - every upstream non-2xx response is relayed with the
\* upstream's status, its decoded body or the decode failure detail (the raw
\* excerpt, or the age handler's empty-body placeholder) in `details`.
C4_Original ==
  \A h \in Handlers :
    (Answered(h) /\ ~IsOk(upStatus[h])) =>
      /\ Sent(h).status = upStatus[h]
      /\ Sent(h).body.t = "object"
      /\ "details" \in DOMAIN Sent(h).body.fields
      /\ IF JSONparse(upBody[h]).ok
           THEN Sent(h).body.fields.details = JSONparse(upBody[h]).v
           ELSE Sent(h).body.fields.details \in
                  { JText(SubSeq(upBody[h], 1, Min(ExcerptLen, Len(upBody[h])))),
                    JObj([error |-> JStr("Empty response from API")]) }

\* C4 (amended) - an upstream non-2xx response whose body decodes as JSON is
\* relayed with the upstream's status and the decoded body in `details`; one
\* whose non-empty body does not decode is answered with HTTP 500 instead.
C4_RelayedWhenDecodable ==
  \A h \in Handlers :
    (Answered(h) /\ ~IsOk(upStatus[h])) =>
      /\ JSONparse(upBody[h]).ok =>
           /\ Sent(h).status = upStatus[h]
           /\ Sent(h).body.t = "object"
           /\ "details" \in DOMAIN Sent(h).body.fields
           /\ Sent(h).body.fields.details = JSONparse(upBody[h]).v
      /\ (~JSONparse(upBody[h]).ok /\ upBody[h] # <<>>) => Sent(h).status = 500

\* C4 witness: an upstream 401 with a JSON body was relayed as 401.
C4_Witness ==
  \E h \in Handlers :
    /\ Answered(h)
    /\ upStatus[h] = 401
    /\ upBody[h] = UnauthorizedText
    /\ Sent(h).status = 401
    /\ Sent(h).body.fields.details = JObj([message |-> JStr("Unauth")])

\* JSON.parse was run on the upstream body and threw (the age handler does not
\* run it on an empty body).
DecodeFailed(h) ==
  /\ Answered(h)
  /\ ~JSONparse(upBody[h]).ok
  /\ h = "age" => upBody[h] # <<>>

C6_SuccessVerbatim ==
  \A h \in Handlers :
    /\ (Done(h) /\ Sent(h).status = 200) =>
         /\ outcome[h] = "responded"
         /\ IsOk(upStatus[h])
         /\ JSONparse(upBody[h]).ok
         /\ Sent(h).body = JSONparse(upBody[h]).v
    /\ (Answered(h) /\ IsOk(upStatus[h]) /\ JSONparse(upBody[h]).ok) =>
         Sent(h) = Response(200, JSONparse(upBody[h]).v)

\* C7 - every non-success proxy response has a string `error` field and HTTP
\* status 400, 500 or the upstream's own non-2xx status, for every upstream body.
C7_FailureShape ==
  \A h \in Handlers :
    (Done(h) /\ ~IsOk(Sent(h).status)) =>
      /\ Sent(h).body.t = "object"
      /\ "error" \in DOMAIN Sent(h).body.fields
      /\ Sent(h).body.fields.error.t = "string"
      /\ \/ Sent(h).status \in {400, 500}
         \/ outcome[h] = "responded" /\ Sent(h).status = upStatus[h]

\* C8 - a request causes at most one outbound call, exactly one when validation
\* passed and every image was encoded, none otherwise; no outcome of the call
\* causes another; an answered request got exactly one response.
C8_SingleCallSingleResponse ==
  \A h \in Handlers :
    /\ calls[h] <= 1
    /\ calls[h] = 1 <=> (ValidRequest(h) /\ encoded[h] = Len(FieldNames(h)))
    /\ Len(out[h]) <= 1
    /\ Done(h) <=> Len(out[h]) = 1

\* C8 witness: a call that failed was answered and was not issued again, and a
\* call that timed out likewise.
C8_Witness ==
  /\ Done("age") /\ outcome["age"] = "rejected" /\ calls["age"] = 1
  /\ Done("verify") /\ outcome["verify"] = "aborted" /\ calls["verify"] = 1

\* C9 - given valid requests and the same upstream outcome (same status and raw
\* body, or the same failure), the age and verify handlers send the same response.
C9_HandlersAgree ==
  ( /\ Done("age") /\ Done("verify")
    /\ ValidRequest("age") /\ ValidRequest("verify")
    /\ outcome["age"] = outcome["verify"]
    /\ outcome["age"] = "responded" =>
         (upStatus["age"] = upStatus["verify"] /\ upBody["age"] = upBody["verify"]) )
  => out["age"] = out["verify"]

\* Everything one request's execution owns.
RequestState(h) ==
  <<pc[h], req[h], encoded[h], timer[h], aborted[h], calls[h], outcome[h],
    upStatus[h], upBody[h], out[h]>>

\* C20 - two requests processed at the same time do not interfere: every step
\* is a step of one request and leaves everything the other request owns (its
\* abort flag, its timer, its upstream outcome, its response) as it was; a
\* request's controller is aborted only by that request's own armed timer; and a
\* request is answered with the timeout response only after its own abort.
C20_RequestsDoNotInterfere ==
  /\ [][ \E h \in Handlers :
           \A g \in Handlers \ {h} : RequestState(g)' = RequestState(g) ]_vars
  /\ [][ \A h \in Handlers :
           (aborted'[h] /\ ~aborted[h]) => (timer[h] = "armed" /\ timer'[h] # "armed") ]_vars
  /\ [](\A h \in Handlers :
           (Done(h) /\ out[h] = <<CatchResponse(AbortError)>>) =>
             (aborted[h] /\ outcome[h] = "aborted"))

\* C20 witness: one request has timed out and been answered while the other's
\* call, issued before, is still pending with its own timer armed and its
\* controller not aborted.
C20_Witness ==
  \E h \in Handlers, g \in Handlers :
    /\ h # g
    /\ Done(h) /\ outcome[h] = "aborted" /\ out[h] = <<CatchResponse(AbortError)>>
    /\ pc[g] = "fetching" /\ timer[g] = "armed" /\ ~aborted[g]

\* C20, the other request then answered from its own upstream response.
C20_BothAnsweredWitness ==
  \E h \in Handlers, g \in Handlers :
    /\ h # g
    /\ Done(h) /\ outcome[h] = "aborted"
    /\ Done(g) /\ outcome[g] = "responded" /\ out[g] = <<SuccessResponse(JObj([age |-> JNum("30")]))>>

\* C21 - every accepted request is eventually answered: the handler reaches one
\* of its return statements, also when the upstream sent its response headers
\* in time and then never finishes sending the body.
C21_EveryRequestAnswered ==
  \A h \in Handlers : (pc[h] # "idle") ~> (Done(h) /\ Len(out[h]) = 1)

-----------------------------------------------------------------------------
(* Properties of the Client Form Controller *)

\* The step is a submission of the form on screen.
SubmitStep == lastEvent' = "submit" /\ events' = events + 1

\* The key is empty, or an image of the form on screen is not selected.
SubmissionIncomplete == apiKey = "" \/ \E sl \in SlotsOf(activeTab) : image[sl] = NoFile

\* C10 - a submission made while the API key is empty or a required image is not
\* selected issues no network call, sets a validation error message, and does not
\* enter the loading state (both page variants, every kind).
C10_IncompleteSubmissionStaysLocal ==
  [][ (SubmitStep /\ SubmissionIncomplete) =>
        /\ netCalls' = netCalls
        /\ call' = NoCall
        /\ isLoading' = FALSE
        /\ error' # JNull
        /\ error'.t = "string" ]_vars

\* C10 witness: in the multi variant a submission with a key but without an image
\* was refused on a single-image tab, with no call made in the session.
C10_Witness ==
  /\ variant = "multi"
  /\ lastEvent = "submit"
  /\ apiKey # ""
  /\ activeTab # "verification"
  /\ error = JStr("Image is required")
  /\ ~isLoading
  /\ netCalls = 0

\* The file is above the size ceiling.
Oversize(f) == f.size > MAX_IMAGE_SIZE

\* No oversize file is held anywhere: not as a selected image, not in a pending
\* preview read, not as a preview, not among the files of the outbound call.
NoOversizeHeld ==
  /\ \A sl \in Slots : ~Oversize(image[sl])
  /\ \A f \in Files : Oversize(f) =>
       /\ \A sl \in Slots : <<sl, f.id>> \notin reads /\ preview[sl] # DataURL(f.id)
       /\ \A i \in 1..Len(call.files) : call.files[i] # f.id

\* C11 - multi-kind variant: selecting a file larger than 5 MB for any slot sets
\* the size error and leaves the selected image and the pending preview reads as
\* they were, so no oversize file is ever selected, previewed, encoded or sent; a
\* file of at most 5 MB (exactly 5 MB included) becomes the selected image and
\* its preview read is started.
C11_OversizeRejectedLocally ==
  /\ [](variant = "multi" => NoOversizeHeld)
  /\ [][ \A sl \in Slots, f \in Files :
           (variant = "multi" /\ SelectImage(sl, f)) =>
             IF Oversize(f)
               THEN /\ error' = OversizeError
                    /\ image' = image /\ reads' = reads /\ preview' = preview
                    /\ call' = call /\ netCalls' = netCalls
               ELSE image'[sl] = f /\ <<sl, f.id>> \in reads' ]_vars

\* C11 witness: in the multi variant a slot holds the file of exactly 5 MB and
\* the last selection, of a larger file, left the size error on screen.
C11_Witness ==
  /\ variant = "multi"
  /\ lastEvent = "select"
  /\ error = OversizeError
  /\ \E sl \in Slots : image[sl].size = MAX_IMAGE_SIZE /\ <<sl, image[sl].id>> \in reads

\* The submit handler is between its first await and its finally block.
HandlerPending == call # NoCall

\* The handler's outbound call has been issued and has not settled.
InFlight == call.phase \in {"fetching", "parsing"}

\* The step issues an outbound call (fetch is called).
IssuesCall == netCalls' = netCalls + 1

\* The step ends the handler of an accepted submission.
HandlerEnds == HandlerPending /\ call' = NoCall

\* What holds of every step whether or not encoding can fail: a submission is
\* accepted only while no handler is pending, fetch is called at most once per
\* step and only by a handler that has not called it yet, and a handler whose
\* call is in flight or has failed never calls fetch again.
OneCallPerHandler ==
  /\ SubmitStep => (~HandlerPending \/ call' = call)
  /\ (~HandlerPending /\ HandlerPending') => SubmitStep
  /\ netCalls' = netCalls \/ IssuesCall
  /\ IssuesCall <=> (~InFlight /\ call'.phase = "fetching")
  /\ InFlight => (~IssuesCall /\ call'.phase \in {"fetching", "parsing", "idle"})
  /\ call.phase = "parsing" => call'.phase # "fetching"

\* C12 as stated - at most one call in flight, every accepted submission issues
\* exactly one call (so a handler that ends has issued its call), and no call is
\* re-issued without a new submission.
C12_Original ==
  /\ [](isLoading <=> HandlerPending)
  /\ [][ OneCallPerHandler /\ (HandlerEnds => InFlight) ]_vars

\* C12 amended - at most one call in flight; every accepted submission issues
\* at most one call: exactly one when its handler ends after the call was
\* issued, and none when encoding an image failed first (multi variant only),
\* in which case the failure is shown; no call is re-issued without a new
\* submission.
C12_AtMostOneCallPerSubmission ==
  /\ [](isLoading <=> HandlerPending)
  /\ [][ /\ OneCallPerHandler
         /\ (HandlerEnds /\ ~InFlight) =>
              /\ variant = "multi" /\ call.phase = "encoding"
              /\ netCalls' = netCalls
              /\ error' = ApiErrorMessage(ReadErrorEvent) /\ ~isLoading' ]_vars

\* C12 witness: the second accepted submission of a session has its call in
\* flight, the first one having failed.
C12_Witness ==
  /\ InFlight
  /\ netCalls = 2
  /\ isLoading

\* C12 witness of the amended case: an accepted submission of the multi variant
\* ended on an encoding failure without any call having been issued.
C12_EncodingFailureWitness ==
  /\ variant = "multi"
  /\ lastEvent = "submit"
  /\ ~HandlerPending
  /\ netCalls = 0
  /\ error = ApiErrorMessage(ReadErrorEvent)

\* C13 - the loading flag becomes true only in a step that is a user submission
\* of a form whose local validation passed, it becomes false only in the step
\* that ends the submission's handler, and every such step (success, non-2xx
\* response, undecodable body, network exception, image encoding failure) sets
\* it to false and leaves either the result or an error message, with the form's
\* buttons enabled again.
C13_LoadingLifecycle ==
  [][ /\ (~isLoading /\ isLoading') =>
           (SubmitStep /\ ValidationError(activeTab) = JNull /\ HandlerPending')
      /\ (isLoading /\ ~isLoading') => HandlerEnds
      /\ HandlerEnds =>
           /\ ~isLoading' /\ FormEnabled'
           /\ \/ error' # JNull /\ error'.t = "string"
              \/ /\ call.phase = "parsing" /\ call.payload.ok /\ IsOk(call.status)
                 /\ result'[call.kind] = call.payload.v ]_vars

\* C13 witness: a call settled with a non-2xx response, its message is shown and
\* the form is idle again.
C13_Witness ==
  /\ lastEvent = "submit"
  /\ netCalls = 1
  /\ ~HandlerPending
  /\ ~isLoading
  /\ error = JStr("Unauthorized")

\* C14 - every submission that entered the submitting state leaves it: when the
\* remote side does not answer, a deadline aborts the call and the loading flag
\* returns to false with an error shown.
C14_SubmittingEnds == isLoading ~> (~isLoading /\ ~HandlerPending)

\* The transient state of kind k is at its initial values.
Cleared(k) ==
  /\ \A sl \in SlotsOf(k) : image[sl] = NoFile /\ preview[sl] = NoPreview
  /\ result[k] = JNull
  /\ error = JNull
  /\ errorDetails = JNull

\* C15 - from the reset of a kind until the next user action, that kind's
\* selected images, previews and result, the error and the error detail are at
\* their initial empty values (the form reset is the one on screen, and no
\* callback pending at the time of the reset changes any of them).
C15_ResetStaysCleared == lastEvent = "reset" => Cleared(activeTab)

\* The step is the handler reading a non-2xx response whose body decoded to a
\* JSON object.
FailureBodyStep ==
  /\ call.phase = "parsing" /\ call' = NoCall
  /\ call.payload.ok /\ ~IsOk(call.status)
  /\ call.payload.v.t = "object"

\* The detail payload of a failure body: its `details` if present, else the body.
DetailOf(body) ==
  IF "details" \in DOMAIN body.fields THEN body.fields["details"] ELSE body

\* C16 - when the call returns a non-2xx response with a JSON body, the message
\* displayed is the body's `error` field if that is a string and otherwise the
\* stringified detail payload, and the detail payload (the body's `details` if
\* present, else the whole body) is stored as the error detail.
C16_FailureNormalised ==
  [][ FailureBodyStep =>
        /\ error' = IF GetField(call.payload.v, "error").t = "string"
                      THEN GetField(call.payload.v, "error")
                      ELSE JStr(JSONstringify(DetailOf(call.payload.v)))
        /\ errorDetails' = DetailOf(call.payload.v) ]_vars

\* The step is a click on Save, on Remove.
SaveStep == lastEvent' = "save" /\ events' = events + 1
RemoveStep == lastEvent' = "remove" /\ events' = events + 1

\* C17 - Save with a key that is non-blank after trimming writes that key to
\* local storage and leaves the key input disabled (saved, not editing); Save
\* with a blank key changes neither storage nor the saved and editing flags;
\* Remove deletes the storage entry, empties the in-memory key and leaves the
\* input enabled in editing mode with a focus request scheduled.
C17_CredentialLifecycle ==
  [][ /\ (SaveStep /\ Trim(apiKey) # "") =>
           /\ storage' = Str(apiKey) /\ apiKey' = apiKey
           /\ isApiKeySaved' /\ ~isEditingApiKey' /\ KeyInputDisabled'
      /\ (SaveStep /\ Trim(apiKey) = "") =>
           UNCHANGED <<storage, isApiKeySaved, isEditingApiKey, apiKey>>
      /\ RemoveStep =>
           /\ storage' = NullStr /\ apiKey' = ""
           /\ ~isApiKeySaved' /\ isEditingApiKey' /\ ~KeyInputDisabled'
           /\ focusTimers' = focusTimers + 1 ]_vars

\* C17 witness: a key typed into the empty input was saved and the input is
\* locked.
C17_Witness ==
  /\ lastEvent = "save"
  /\ events = 2
  /\ storage = Str("k") /\ apiKey = "k"
  /\ KeyInputDisabled
  /\ focusTimers = 0

\* C17, the other two cases reached: a Remove has emptied storage and key with
\* its focus request pending, and a Save with a blank key has changed nothing.
C17_RemoveWitness ==
  lastEvent = "remove" /\ storage = NullStr /\ apiKey = "" /\ focusTimers = 1
C17_BlankSaveWitness ==
  lastEvent = "save" /\ apiKey = " " /\ storage = NullStr /\ isEditingApiKey

\* The mount effect has run and the user has not acted yet.
JustMounted == mounted /\ events = 0

\* C18 - after the mount effect: if a non-empty value is stored, the in-memory
\* key equals it, the saved flag is set and the input is locked; if nothing is
\* stored, the editing flag is set, the saved flag is clear and the key is empty.
C18_MountLoadsKey ==
  JustMounted =>
    /\ (~storage.isNull /\ storage.s # "") =>
         (apiKey = storage.s /\ isApiKeySaved /\ KeyInputDisabled)
    /\ storage.isNull =>
         (isEditingApiKey /\ ~isApiKeySaved /\ apiKey = "" /\ ~KeyInputDisabled)

\* C18 witness: mounted over a stored key, the key is in memory and locked.
C18_Witness ==
  /\ JustMounted
  /\ storage = Str("k")
  /\ apiKey = "k"
  /\ KeyInputDisabled

\* C19 - the value in local storage changes only in a Save or a Remove step:
\* typing in the key input, toggling edit mode, selecting images, submitting and
\* every way the call settles, resetting a form, switching tabs, the mount
\* effect and the timers and file reads leave it as it was.
C19_StorageFrame ==
  [][ storage' # storage => (SaveStep \/ RemoveStep) ]_vars

\* C19 witness: the saved key was put in edit mode and the input emptied by
\* typing, and then a form was submitted; the stored key is still there.
C19_Witness ==
  /\ lastEvent = "submit"
  /\ events = 3
  /\ isApiKeySaved /\ isEditingApiKey
  /\ apiKey = ""
  /\ storage = Str("k")
  /\ error # JNull

\* The preview a slot should show for what is selected in it.
PreviewOfSelected(sl) ==
  IF image[sl] = NoFile THEN NoPreview ELSE DataURL(image[sl].id)

\* C22 - once no preview read is pending, every slot shows the preview of the
\* file selected in it and a slot without a selected file shows none, whatever
\* the order in which the reads of successive selections and resets completed
\* (sessions in which every read succeeds).
C22_PreviewMatchesSelection ==
  reads = {} => \A sl \in Slots : preview[sl] = PreviewOfSelected(sl)

\* The ids of the files that selection `img` holds for kind k, in the order a
\* submission sends them.
FilesOf(img, k) == [i \in 1..Len(SlotSeq(k)) |-> img[SlotSeq(k)[i]].id]

\* C23 - a displayed result was computed from the images selected now: a result
\* is stored only for a call made with the files selected at that moment
\* (an image changed during the call does not get the old image's result), and
\* a step that puts a different file into a slot does not leave a result of that
\* slot's kind displayed.
C23_ResultOfCurrentSelection ==
  [][ /\ (HandlerEnds /\ result'[call.kind] # JNull) =>
           call.files = FilesOf(image', call.kind)
      /\ \A sl \in Slots :
           (image'[sl] # image[sl] /\ image'[sl] # NoFile) =>
             result'[KindOfSlot(sl)] = JNull ]_vars

\* The form a step's error comes from: the form whose call ends in the step, or
\* else the form on screen (validation of a submission or of a selected file).
RaisingKind == IF HandlerEnds THEN call.kind ELSE activeTab

\* C24 - an error message and a result of the same kind are never both set:
\* every step that sets an error message (a failed call, a missing field, an
\* oversize image) leaves the result of the form that raised it null.
C24_ErrorExcludesResult ==
  [][ (error' # JNull /\ error' # error) => result'[RaisingKind] = JNull ]_vars

\* The messages of the local validation failures.
LocalValidationErrors ==
  { OversizeError, JStr("API key is required"), JStr("Both images are required"),
    JStr("Image is required"), JStr("All fields are required") }

\* C25 - the error detail belongs to the error displayed: while the message of
\* a local validation failure (missing key, missing image, oversize image) is
\* displayed, no detail payload (of an earlier failed call) is set.
C25_DetailBelongsToError ==
  error \in LocalValidationErrors => errorDetails = JNull

\* Local storage holds a key.
StorageHoldsKey == ~storage.isNull /\ storage.s # ""

\* C26 - after mount, in every state of the credential controls: the saved flag
\* is true exactly when local storage holds a key; at least one of the saved and
\* editing flags is true; and whenever the input is locked (saved and not
\* editing) the in-memory key, the one a submission sends, is the stored key.
C26_CredentialControls ==
  mounted =>
    /\ isApiKeySaved <=> StorageHoldsKey
    /\ isApiKeySaved \/ isEditingApiKey
    /\ KeyInputDisabled => apiKey = storage.s

\* C26 witness: a stored key was put in edit mode (or removed), a key typed and
\* saved; the input is locked again on the stored key.
C26_Witness ==
  /\ mounted
  /\ lastEvent = "save"
  /\ events = 3
  /\ focusTimers = 1
  /\ KeyInputDisabled
  /\ apiKey = "k" /\ storage = Str("k")

\* C26, the state the third part is about: while editing a saved key the
\* in-memory key differs from the stored one.
C26_EditingDiffersWitness ==
  mounted /\ isApiKeySaved /\ isEditingApiKey /\ StorageHoldsKey /\ apiKey # storage.s

====
